---------------------------- MODULE Spec2Model ----------------------------
(***************************************************************************)
(* Worship Song Recommender (src/Worship/app.py).                          *)
(*                                                                         *)
(* A Streamlit script: every user interaction re-runs the script from the *)
(* top.  State that survives a run: the Google sheet, the st.cache_resource*)
(* entry of load_resources, and st.session_state (results, last_query).    *)
(*                                                                         *)
(* Text is modelled as sequences of code points, so that str.lower, the    *)
(* \b word boundary of re, gspread's numericise and Python's string order  *)
(* are computed and not assumed.                                           *)
(***************************************************************************)
EXTENDS Integers, Sequences, FiniteSets, TLC

VARIABLES
    sheet,       \* data rows of the Google sheet (below the header row), cells as text
    cache,       \* st.cache_resource entry of load_resources
    query,       \* content of the query text box
    last_query,  \* st.session_state.last_query
    results,     \* st.session_state.results
    outcome,     \* how the latest script run ended: "ok" or the exception raised
    call         \* locals of the latest call of recommend / extract_speed_filter

vars == <<sheet, cache, query, last_query, results, outcome, call>>

---------------------------------------------------------------------------
(* Text *)

Code ==
    [c \in {"a","b","c","d","e","f","g","h","i","k","l","m","o","p","q","r",
            "s","t","u","w","x","y","A","F","S","X","1","7"," ","-","_","\n"} |->
        CASE c = "a" -> 97  [] c = "b" -> 98  [] c = "c" -> 99  [] c = "d" -> 100
          [] c = "e" -> 101 [] c = "f" -> 102 [] c = "g" -> 103 [] c = "h" -> 104
          [] c = "i" -> 105 [] c = "k" -> 107 [] c = "l" -> 108 [] c = "m" -> 109
          [] c = "o" -> 111 [] c = "p" -> 112 [] c = "q" -> 113 [] c = "r" -> 114
          [] c = "s" -> 115 [] c = "t" -> 116 [] c = "u" -> 117 [] c = "w" -> 119
          [] c = "x" -> 120 [] c = "y" -> 121
          [] c = "A" -> 65  [] c = "F" -> 70  [] c = "S" -> 83  [] c = "X" -> 88
          [] c = "1" -> 49  [] c = "7" -> 55
          [] c = " " -> 32  [] c = "-" -> 45  [] c = "_" -> 95  [] c = "\n" -> 10]

\* the text spelled by a tuple of one-character strings
Str(t) == [i \in 1..Len(t) |-> Code[t[i]]]

RECURSIVE Concat(_)
Concat(ss) == IF ss = <<>> THEN <<>> ELSE Head(ss) \o Concat(Tail(ss))

IsUpper(c) == c >= 65 /\ c <= 90
IsDigit(c) == c >= 48 /\ c <= 57

\* str.lower() on ASCII text
LowerChar(c) == IF IsUpper(c) THEN c + 32 ELSE c
Lower(s) == [i \in 1..Len(s) |-> LowerChar(s[i])]

\* \w of re: letters, digits and the underscore
IsWordChar(c) == IsUpper(c) \/ (c >= 97 /\ c <= 122) \/ IsDigit(c) \/ c = 95

\* \b of re at offset p (0..Len(s)): exactly one side is a word character
WordBoundary(s, p) ==
    LET before == p >= 1 /\ IsWordChar(s[p])
        after  == p < Len(s) /\ IsWordChar(s[p + 1])
    IN  before # after

\* re.search(r"\b(w1|w2|...)\b", s) finds a match
SearchWords(words, s) ==
    \E w \in words : \E i \in 1..(Len(s) - Len(w) + 1) :
        /\ SubSeq(s, i, i + Len(w) - 1) = w
        /\ WordBoundary(s, i - 1)
        /\ WordBoundary(s, i + Len(w) - 1)

\* Python's < on str: lexicographic by code point, a proper prefix first
RECURSIVE StrLess(_, _)
StrLess(a, b) ==
    IF b = <<>> THEN FALSE
    ELSE IF a = <<>> THEN TRUE
    ELSE IF Head(a) # Head(b) THEN Head(a) < Head(b)
    ELSE StrLess(Tail(a), Tail(b))

---------------------------------------------------------------------------
(* extract_speed_filter *)

None == <<>>

kw_slow   == Str(<<"s","l","o","w">>)
kw_middle == Str(<<"m","i","d","d","l","e">>)
kw_fast   == Str(<<"f","a","s","t">>)

SlowWords   == {kw_slow, Str(<<"s","l","o","w","e","r">>), Str(<<"s","l","o","w","l","y">>)}
MiddleWords == {Str(<<"m","i","d">>), kw_middle, Str(<<"m","e","d","i","u","m">>),
                Str(<<"m","o","d","e","r","a","t","e">>)}
FastWords   == {kw_fast, Str(<<"f","a","s","t","e","r">>), Str(<<"q","u","i","c","k">>),
                Str(<<"u","p","b","e","a","t">>)}

\* a bug: the fast group tested before the middle group
extract_speed_filter_fast_first(q) ==
    LET query_lower == Lower(q)
    IN  IF SearchWords(SlowWords, query_lower) THEN kw_slow
        ELSE IF SearchWords(FastWords, query_lower) THEN kw_fast
        ELSE IF SearchWords(MiddleWords, query_lower) THEN kw_middle
        ELSE None

extract_speed_filter(q) ==
    LET query_lower == Lower(q)
    IN  IF SearchWords(SlowWords, query_lower) THEN kw_slow
        ELSE IF SearchWords(MiddleWords, query_lower) THEN kw_middle
        ELSE IF SearchWords(FastWords, query_lower) THEN kw_fast
        ELSE None

NoCall == [fn |-> "none"]

---------------------------------------------------------------------------
(* Catalog rows and load_resources *)

\* one data row of the sheet; the columns append_row writes
Song(title, artist, themes, speed, link, lyrics, added_by) ==
    [title |-> title, artist |-> artist, themes |-> themes, speed |-> speed,
     link |-> link, lyrics |-> lyrics, added_by |-> added_by]

SP == Str(<<" ">>)

\* gspread's numericise, applied by get_all_records to every cell: text that
\* int() reads comes back as a number (modelled for digit strings)
IsNumeric(cell) == cell # <<>> /\ \A i \in 1..Len(cell) : IsDigit(cell[i])

\* df['search_text'] = speed + ' ' + themes + ' ' + title + ' ' + artist
search_text(r) == r.speed \o SP \o r.themes \o SP \o r.title \o SP \o r.artist

\* load_resources: the frame with its search_text column, or the exception.
\* No rows: the frame has no 'speed' column (KeyError).  A cell read back as a
\* number in a concatenated column: str + int (TypeError).
load_resources(rows) ==
    IF rows = <<>> THEN [raised |-> "KeyError", df |-> <<>>]
    ELSE IF \E i \in 1..Len(rows) :
                \/ IsNumeric(rows[i].speed) \/ IsNumeric(rows[i].themes)
                \/ IsNumeric(rows[i].title) \/ IsNumeric(rows[i].artist)
         THEN [raised |-> "TypeError", df |-> <<>>]
    ELSE [raised |-> "no",
          df |-> [i \in 1..Len(rows) |->
                    [song |-> rows[i], search_text |-> search_text(rows[i])]]]

---------------------------------------------------------------------------
(* recommend *)

top_k_default == 20

Sims   == {0, 1}      \* inner products of the query with a row, abstracted
Scores == {-1, 1}     \* cross-encoder outputs, abstracted

Min(a, b) == IF a <= b THEN a ELSE b

\* a bug: the whole catalog kept whatever the filter
FilterSpeed_unfiltered(d, speed_filter) == d

\* df[df['speed'].str.lower() == speed_filter]
FilterSpeed(d, speed_filter) ==
    SelectSeq(d, LAMBDA r : Lower(r.song.speed) = speed_filter)

Perms(n) == { f \in [1..n -> 0..(n - 1)] : \A i, j \in 1..n : i # j => f[i] # f[j] }

\* orders in which an exact inner-product index over the rows can rank them:
\* descending similarity, rows of equal search_text equally similar, ties in
\* any order
RetrievalOrders(fdf) ==
    LET n     == Len(fdf)
        texts == { fdf[i].search_text : i \in 1..n }
    IN  { o \in Perms(n) :
            \E sim \in [texts -> Sims] :
                \A i \in 1..n : \A j \in (i + 1)..n :
                    sim[fdf[o[i] + 1].search_text] >= sim[fdf[o[j] + 1].search_text] }

\* temp_index.search(query_emb, k)[1][0]: k labels, 0-based positions of the
\* best rows first and -1 for every hit the index is too small to give
IndexSearch(order, k) ==
    [i \in 1..k |-> IF i <= Len(order) THEN order[i] ELSE -1]

\* filtered_df.iloc[idxs]: positional, a negative position counts from the end
iloc(fdf, idxs) ==
    [i \in 1..Len(idxs) |->
        fdf[IF idxs[i] < 0 THEN Len(fdf) + idxs[i] + 1 ELSE idxs[i] + 1]]

SameSong(a, b) == a.song.title = b.song.title /\ a.song.artist = b.song.artist

\* a bug: keep='last'
drop_duplicates_keep_last(rows) ==
    LET keep == { i \in 1..Len(rows) : \A j \in (i + 1)..Len(rows) : ~SameSong(rows[j], rows[i]) }
        F[i \in 0..Len(rows)] ==
            IF i = 0 THEN <<>>
            ELSE IF i \in keep THEN Append(F[i - 1], rows[i]) ELSE F[i - 1]
    IN  F[Len(rows)]

\* drop_duplicates(subset=['title', 'artist']): the first row of each pair
drop_duplicates(rows) ==
    LET keep == { i \in 1..Len(rows) : \A j \in 1..(i - 1) : ~SameSong(rows[j], rows[i]) }
        F[i \in 0..Len(rows)] ==
            IF i = 0 THEN <<>>
            ELSE IF i \in keep THEN Append(F[i - 1], rows[i]) ELSE F[i - 1]
    IN  F[Len(rows)]

\* the text the cross-encoder scores: speed + " " + themes + " " + lyrics
cross_input(r) == r.song.speed \o SP \o r.song.themes \o SP \o r.song.lyrics

\* a bug: ties in score left in retrieval order
SortsBefore_score_only(a, b) == a.score > b.score

\* by=['score', 'title'], ascending=[False, True]
SortsBefore(a, b) ==
    \/ a.score > b.score
    \/ a.score = b.score /\ StrLess(a.song.title, b.song.title)

\* stable insertion of x into the sorted s
RECURSIVE InsertSorted(_, _)
InsertSorted(s, x) ==
    IF s = <<>> THEN <<x>>
    ELSE IF SortsBefore(x, Head(s)) THEN <<x>> \o s
    ELSE <<Head(s)>> \o InsertSorted(Tail(s), x)

\* sort_values: a stable sort
sort_values(c) ==
    LET F[i \in 0..Len(c)] == IF i = 0 THEN <<>> ELSE InsertSorted(F[i - 1], c[i])
    IN  F[Len(c)]

\* a bug: one row too few
head_off_by_one(s, n) == SubSeq(s, 1, Min(n, Len(s)) - 1)

\* DataFrame.head(n), n >= 0
head(s, n) == SubSeq(s, 1, Min(n, Len(s)))

\* the calls recommend(q, top_k, candidate_pool) can make over the frame d, one
\* per ranking of the index and per scoring of the cross-encoder
recommend(d, q, top_k, candidate_pool) ==
    LET speed_filter == extract_speed_filter(q)
        filtered_df  == IF speed_filter # None THEN FilterSpeed(d, speed_filter) ELSE d
        base == [fn |-> "recommend", query |-> q, top_k |-> top_k,
                 candidate_pool |-> candidate_pool, speed_filter |-> speed_filter,
                 filtered_df |-> filtered_df]
    IN  IF speed_filter # None /\ filtered_df = <<>>
        THEN { base @@ [raised |-> "no", searched |-> FALSE, candidate_idxs |-> <<>>,
                        raw_candidates |-> <<>>, result |-> <<>>] }
        ELSE IF filtered_df = <<>>
        THEN \* encode([]) gives an array with no second axis
             { base @@ [raised |-> "IndexError", searched |-> FALSE, candidate_idxs |-> <<>>,
                        raw_candidates |-> <<>>, result |-> <<>>] }
        ELSE
          { LET candidate_idxs == IndexSearch(order, candidate_pool)
                raw_candidates == iloc(filtered_df, candidate_idxs)
                candidates     == drop_duplicates(raw_candidates)
                scored == [i \in 1..Len(candidates) |->
                             candidates[i] @@ [score |-> cross_scores[cross_input(candidates[i])]]]
            IN  base @@ [raised |-> "no", searched |-> TRUE,
                         candidate_idxs |-> candidate_idxs,
                         raw_candidates |-> raw_candidates,
                         result |-> head(sort_values(scored), top_k)]
            : order \in RetrievalOrders(filtered_df),
              cross_scores \in [{ cross_input(filtered_df[i]) : i \in 1..Len(filtered_df) } -> Scores] }

---------------------------------------------------------------------------
(* SpecRec: recommend applied to bounded catalogs *)

MaxCatalog == 3

t_Ab == Str(<<"A","b">>)
t_ab == Str(<<"a","b">>)
t_A  == Str(<<"A">>)
t_7  == Str(<<"7">>)
a_x  == Str(<<"x">>)
a_X  == Str(<<"X">>)
th_g == Str(<<"g">>)
ly_h == Str(<<"h">>)
ly_i == Str(<<"i">>)
url  == Str(<<"h","t","t","p">>)

\* rows with equal and unequal (title, artist) pairs, speeds in either case
CatalogRows ==
    { Song(t_Ab, a_x, th_g, kw_slow, url, ly_h, a_x),
      Song(t_Ab, a_x, th_g, kw_slow, url, ly_i, a_x),
      Song(t_Ab, a_X, th_g, Str(<<"S","l","o","w">>), url, ly_h, a_x),
      Song(t_ab, a_x, th_g, kw_fast, url, ly_h, a_x),
      Song(t_A,  a_x, th_g, kw_fast, url, ly_i, a_x) }

Catalogs == UNION { [1..n -> CatalogRows] : n \in 1..MaxCatalog }

RecQueries == { <<>>, kw_slow, Str(<<"m","i","d">>), Str(<<"F","A","S","t">>) }
TopKs == {0, 1, top_k_default}

InitRec ==
    /\ sheet \in Catalogs
    /\ cache = [loaded |-> TRUE, df |-> load_resources(sheet).df]
    /\ query = <<>>
    /\ last_query = <<>>
    /\ results = <<>>
    /\ outcome = "ok"
    /\ call = NoCall

\* recommend(q, top_k=N); candidate_pool keeps its default, len(df)
RecommendCall(q, N) ==
    /\ call = NoCall
    /\ call' \in recommend(cache.df, q, N, Len(cache.df))
    /\ UNCHANGED <<sheet, cache, query, last_query, results, outcome>>

NextRec == \E q \in RecQueries, N \in TopKs : RecommendCall(q, N)

SpecRec == InitRec /\ [][NextRec]_vars

Pairs(rows) == { <<rows[i].song.title, rows[i].song.artist>> : i \in 1..Len(rows) }

\* C2: when a speed label is extracted from the query, every song recommend
\* returns has that speed (compared in lower case), and when no song of the
\* catalog has it the result is empty.
C2_FilterRespected ==
    (call.fn = "recommend" /\ call.speed_filter # None) =>
        /\ \A i \in 1..Len(call.result) :
               Lower(call.result[i].song.speed) = call.speed_filter
        /\ (\A i \in 1..Len(cache.df) : Lower(cache.df[i].song.speed) # call.speed_filter)
               => call.result = <<>>

\* a filtered call that returns a song whose speed is written in another case,
\* over a catalog that also holds a song of another speed
C2_Witness ==
    /\ call.fn = "recommend"
    /\ call.speed_filter # None
    /\ \E i \in 1..Len(call.result) : call.result[i].song.speed # call.speed_filter
    /\ \E i \in 1..Len(cache.df) : Lower(cache.df[i].song.speed) # call.speed_filter

\* C3: in the result of recommend scores never increase, and of two results
\* with the same score the one with the smaller title comes first.
C3_Ordering ==
    call.fn = "recommend" =>
        \A i, j \in 1..Len(call.result) :
            i < j =>
                /\ call.result[i].score >= call.result[j].score
                /\ call.result[i].score = call.result[j].score
                       => ~StrLess(call.result[j].song.title, call.result[i].song.title)

\* two results of equal score and different titles that the index had ranked
\* the other way round, and a third of a lower score
C3_Witness ==
    /\ call.fn = "recommend"
    /\ \E i, j, k \in 1..Len(call.result) :
        /\ i < j /\ j < k
        /\ call.result[i].score = call.result[j].score
        /\ call.result[j].score > call.result[k].score
        /\ StrLess(call.result[i].song.title, call.result[j].song.title)
        /\ \E p, q \in 1..Len(call.raw_candidates) :
            /\ p < q
            /\ call.raw_candidates[p].song = call.result[j].song
            /\ call.raw_candidates[q].song = call.result[i].song

\* C4: the result of recommend holds no two entries with the same (title,
\* artist) pair, and the entry kept for a pair is the first row of that pair
\* in retrieval order.
C4_Dedup ==
    call.fn = "recommend" =>
        /\ \A i, j \in 1..Len(call.result) :
               i # j => ~SameSong(call.result[i], call.result[j])
        /\ \A i \in 1..Len(call.result) :
               \E p \in 1..Len(call.raw_candidates) :
                   /\ call.raw_candidates[p].song = call.result[i].song
                   /\ \A q \in 1..(p - 1) :
                          ~SameSong(call.raw_candidates[q], call.result[i])

\* the index ranked two rows of one pair with different lyrics, and the pair
\* is in the result
C4_Witness ==
    /\ call.fn = "recommend"
    /\ \E p, q \in 1..Len(call.raw_candidates) :
        /\ p < q
        /\ SameSong(call.raw_candidates[p], call.raw_candidates[q])
        /\ call.raw_candidates[p].song.lyrics # call.raw_candidates[q].song.lyrics
        /\ \E i \in 1..Len(call.result) : call.result[i].song = call.raw_candidates[p].song

\* C5: recommend(query, top_k=N) returns min(N, number of distinct (title,
\* artist) pairs of the working set) entries.
C5_TopK ==
    (call.fn = "recommend" /\ call.raised = "no") =>
        Len(call.result) = Min(call.top_k, Cardinality(Pairs(call.filtered_df)))

\* a call cut short by top_k, and with duplicate rows in the working set
C5_Witness ==
    /\ call.fn = "recommend"
    /\ call.top_k > 0
    /\ call.top_k < Cardinality(Pairs(call.filtered_df))
    /\ Cardinality(Pairs(call.filtered_df)) < Len(call.filtered_df)
    /\ Len(call.result) = call.top_k

\* C9: the number of hits asked of the per-query index is min(candidate_pool,
\* size of the working set); every position returned is a position of a
\* working-set row, and the raw candidate list is no longer than the working
\* set.
C9_PoolCapped ==
    (call.fn = "recommend" /\ call.searched) =>
        /\ Len(call.candidate_idxs) = Min(call.candidate_pool, Len(call.filtered_df))
        /\ \A i \in 1..Len(call.candidate_idxs) :
               call.candidate_idxs[i] \in 0..(Len(call.filtered_df) - 1)
        /\ Len(call.raw_candidates) <= Len(call.filtered_df)

---------------------------------------------------------------------------
(* SpecSpeed: extract_speed_filter applied to bounded queries *)

MaxAtoms == 3

\* fragments a query is put together from: every keyword, mixed case, word
\* characters that glue to a neighbour, and separators
Atoms ==
    SlowWords \cup MiddleWords \cup FastWords \cup
    { Str(<<"S","l","o","w">>), Str(<<"F","A","S","t">>), Str(<<"s">>), Str(<<"1">>),
      Str(<<"_">>), Str(<<" ">>), Str(<<"-">>) }

AtomSeqs == UNION { [1..n -> Atoms] : n \in 0..MaxAtoms }

InitSpeed ==
    /\ sheet = <<>>
    /\ cache = [loaded |-> FALSE, df |-> <<>>]
    /\ query \in { Concat(a) : a \in AtomSeqs }
    /\ last_query = <<>>
    /\ results = <<>>
    /\ outcome = "init"
    /\ call = NoCall

ExtractSpeed ==
    /\ call = NoCall
    /\ call' = [fn |-> "extract_speed_filter", query |-> query,
                speed_filter |-> extract_speed_filter(query)]
    /\ UNCHANGED <<sheet, cache, query, last_query, results, outcome>>

NextSpeed == ExtractSpeed

SpecSpeed == InitSpeed /\ [][NextSpeed]_vars

\* the lowercased maximal runs of word characters of s: its whole words
RECURSIVE WordsFrom(_, _, _)
WordsFrom(s, i, cur) ==
    IF i > Len(s) THEN (IF cur = <<>> THEN {} ELSE {cur})
    ELSE IF IsWordChar(s[i]) THEN WordsFrom(s, i + 1, Append(cur, LowerChar(s[i])))
    ELSE (IF cur = <<>> THEN {} ELSE {cur}) \cup WordsFrom(s, i + 1, <<>>)

WholeWords(s) == WordsFrom(s, 1, <<>>)

\* C1: extract_speed_filter returns "slow" when the lowercased query has a whole
\* word of the slow group, otherwise "middle" when it has one of the middle
\* group, otherwise "fast" when it has one of the fast group, and None only
\* when no group matches.
C1_SpeedPrecedence ==
    call.fn = "extract_speed_filter" =>
        LET ws == WholeWords(call.query)
        IN  call.speed_filter =
                IF ws \cap SlowWords # {} THEN kw_slow
                ELSE IF ws \cap MiddleWords # {} THEN kw_middle
                ELSE IF ws \cap FastWords # {} THEN kw_fast
                ELSE None

\* a query with an upper-case fast word and a middle word, and no slow word
C1_Witness ==
    /\ call.fn = "extract_speed_filter"
    /\ call.speed_filter = kw_middle
    /\ WholeWords(call.query) \cap FastWords # {}
    /\ call.query # Lower(call.query)

---------------------------------------------------------------------------
(* Spec: the script, run once per user interaction *)

MaxRows == 3

\* validators.url, abstracted to the links of the model it accepts
validators_url(link) == link = url

FormTitles  == {t_Ab, t_ab, t_7, <<>>}
FormArtists == {a_x, a_X}
FormSpeeds  == {kw_slow, kw_fast}                  \* of the selectbox
FormLinks   == {url, a_x}
FormLyrics  == {Str(<<"h","\n">>)}
FormAddedBy == {a_x, <<>>}
Radio       == {"Choose an option", "Cancel", "Overwrite"}

Forms ==
    { Song(t, a, th_g, sp, l, ly, by) :
        t \in FormTitles, a \in FormArtists, sp \in FormSpeeds, l \in FormLinks,
        ly \in FormLyrics, by \in FormAddedBy }

AppQueries == { <<>>, kw_slow, Str(<<"g">>) }

InitSheets ==
    { <<>>,
      <<Song(t_Ab, a_x, th_g, kw_slow, url, ly_h, a_x)>>,
      <<Song(t_A, a_x, th_g, kw_fast, url, ly_i, a_x)>>,
      <<Song(t_7, a_x, th_g, kw_slow, url, ly_h, a_x)>> }

Init ==
    /\ sheet \in InitSheets
    /\ cache = [loaded |-> FALSE, df |-> <<>>]
    /\ query = <<>>
    /\ last_query = <<>>
    /\ results = <<>>
    /\ outcome = "init"
    /\ call = NoCall

\* line 50: load_resources() behind st.cache_resource
CachedLoad == IF cache.loaded THEN [raised |-> "no", df |-> cache.df] ELSE load_resources(sheet)

\* lines 110-113: recommend(query) runs when the query is new
QueryStep(d, q) ==
    IF q # <<>> /\ q # last_query
    THEN { [call |-> c, raised |-> c.raised,
            results    |-> IF c.raised = "no" THEN c.result ELSE results,
            last_query |-> IF c.raised = "no" THEN q ELSE last_query]
           : c \in recommend(d, q, top_k_default, Len(d)) }
    ELSE { [call |-> NoCall, raised |-> "no", results |-> results, last_query |-> last_query] }

\* new_lyrics.replace("\n", "")
RemoveNewlines(s) == SelectSeq(s, LAMBDA c : c # 10)

NewRow(f) == [f EXCEPT !.lyrics = RemoveNewlines(f.lyrics)]

\* sheet.delete_rows(i + 2) for the data row at 0-based position i
delete_rows(rows, i) == SubSeq(rows, 1, i) \o SubSeq(rows, i + 2, Len(rows))

\* what st.cache.clear() does: st.cache is the legacy memo decorator, a function;
\* either it has no attribute clear, or it clears the legacy st.cache entries.
\* Neither touches the st.cache_resource entry of load_resources.
StCacheClear == {"AttributeError", "ok"}

\* (existing_df[col].str.lower() == new.lower()) for the row: a cell that
\* get_all_records read back as a number gives NaN, equal to nothing
LowerEq(cell, new) == ~IsNumeric(cell) /\ Lower(cell) = Lower(new)

\* lines 202-249: the rows after the submission and how the handler ended
FormStep(rows, f, radio) ==
    IF ~validators_url(f.link) THEN { [sheet |-> rows, raised |-> "no"] }
    ELSE IF f.title = <<>> \/ f.artist = <<>> \/ f.added_by = <<>>
    THEN { [sheet |-> rows, raised |-> "no"] }
    ELSE IF rows = <<>>
    THEN { [sheet |-> rows, raised |-> "KeyError"] }     \* no 'title' column
    ELSE IF \/ \A i \in 1..Len(rows) : IsNumeric(rows[i].title)
            \/ \A i \in 1..Len(rows) : IsNumeric(rows[i].artist)
    THEN { [sheet |-> rows, raised |-> "AttributeError"] }   \* .str on a numeric column
    ELSE
      LET song_exists == { i \in 1..Len(rows) :
                             /\ LowerEq(rows[i].title, f.title)
                             /\ LowerEq(rows[i].artist, f.artist) }
          first == CHOOSE i \in song_exists : \A j \in song_exists : i <= j
      IN  IF song_exists # {}
          THEN IF radio = "Overwrite"
               THEN { [sheet |-> Append(delete_rows(rows, first - 1), NewRow(f)), raised |-> x]
                      : x \in StCacheClear }
               ELSE { [sheet |-> rows, raised |-> "no"] }
          ELSE { [sheet |-> Append(rows, NewRow(f)), raised |-> x] : x \in StCacheClear }

Ended(raised) == IF raised \in {"no", "ok"} THEN "ok" ELSE raised

\* the user enters a query: one run of the script, no form submitted
ScriptRun(q) ==
    LET ld == CachedLoad
    IN  /\ query' = q
        /\ IF ld.raised # "no"
           THEN /\ outcome' = ld.raised
                /\ call' = NoCall
                /\ UNCHANGED <<sheet, cache, last_query, results>>
           ELSE /\ cache' = [loaded |-> TRUE, df |-> ld.df]
                /\ \E qs \in QueryStep(ld.df, q) :
                       /\ call' = qs.call
                       /\ results' = qs.results
                       /\ last_query' = qs.last_query
                       /\ outcome' = Ended(qs.raised)
                /\ UNCHANGED sheet

\* the user presses "Submit Song": one run of the script with the form's
\* values and the radio's
Submit(f, radio) ==
    LET ld == CachedLoad
    IN  /\ UNCHANGED query
        /\ IF ld.raised # "no"
           THEN /\ outcome' = ld.raised
                /\ call' = NoCall
                /\ UNCHANGED <<sheet, cache, last_query, results>>
           ELSE /\ cache' = [loaded |-> TRUE, df |-> ld.df]
                /\ \E qs \in QueryStep(ld.df, query) :
                       /\ call' = qs.call
                       /\ results' = qs.results
                       /\ last_query' = qs.last_query
                       /\ IF qs.raised # "no"
                          THEN outcome' = qs.raised /\ UNCHANGED sheet
                          ELSE \E fs \in FormStep(sheet, f, radio) :
                                   /\ Len(fs.sheet) <= MaxRows
                                   /\ sheet' = fs.sheet
                                   /\ outcome' = Ended(fs.raised)

Next ==
    \/ \E q \in AppQueries : ScriptRun(q)
    \/ \E f \in Forms, radio \in Radio : Submit(f, radio)

Spec == Init /\ [][Next]_vars

\* no two rows with the same (title, artist), compared in lower case
NoDuplicateSongs(rows) ==
    \A i, j \in 1..Len(rows) :
        i # j => ~(/\ Lower(rows[i].title) = Lower(rows[j].title)
                   /\ Lower(rows[i].artist) = Lower(rows[j].artist))

\* C7: with an empty catalog a run of the script ends without an exception
\* and with an empty result.
C7_EmptyCatalogNoRaise ==
    (sheet = <<>> /\ outcome # "init") => (outcome = "ok" /\ results = <<>>)

\* C8: whenever a submission changes the catalog, the cached resources derived
\* from it are invalidated.
C8_CacheInvalidated ==
    [][sheet' # sheet => ~cache'.loaded]_vars

\* C10: a sheet without two rows of the same (title, artist), compared in lower
\* case, stays so under every form submission.
C10_NoDuplicatesKept ==
    [][NoDuplicateSongs(sheet) => NoDuplicateSongs(sheet')]_vars

===========================================================================
